---- MODULE Spec2Model ----
(***************************************************************************)
(* A model of the Tcl grammar of grammar.js.                               *)
(*                                                                         *)
(* The source text is a sequence of chunks.  A chunk is one delimiter      *)
(* character, one white-space item, one escape, or a piece of "word"       *)
(* characters (the character class of simple_word).  Adjacent word chunks  *)
(* form one maximal run, which is what the regular expression of           *)
(* simple_word matches; the texts of the vocabulary are chosen so that a   *)
(* chunk never has to be split by a token of the grammar.                  *)
(*                                                                         *)
(* Every rule of the grammar is an operator from a position of the source  *)
(* to the set of its derivations from that position, each a record         *)
(* [e |-> position after it, ns |-> the nodes it contributes].  A visible  *)
(* rule contributes one node; a hidden rule (its name starts with "_")     *)
(* contributes the nodes of its members.  Anonymous tokens are left out of *)
(* the tree, except the hidden operand tokens _number and _boolean, kept   *)
(* as leaves so that operands can be told apart.                           *)
(***************************************************************************)
EXTENDS Integers, Sequences, FiniteSets, TLC

VARIABLES inp, src, rest, prev, pos, items, status, stack, epos, estatus

vars == <<inp, src, rest, prev, pos, items, status, stack, epos, estatus>>

----------------------------------------------------------------------------
(* Trees and derivations *)

N(t, x, k) == [t |-> t, x |-> x, k |-> k]

R(e, ns) == [e |-> e, ns |-> ns]

Then(S, F(_)) == UNION { { R(r2.e, r.ns \o r2.ns) : r2 \in F(r.e) } : r \in S }

Wrap(t, S) == { R(r.e, <<N(t, "", r.ns)>>) : r \in S }

Eps(i) == { R(i, <<>>) }

RECURSIVE Cat(_)
Cat(s) == IF s = <<>> THEN "" ELSE Head(s) \o Cat(Tail(s))

----------------------------------------------------------------------------
(* Character classes *)

Space == " "

Newline == "\n"

Continuation == "\\\n"

Punct == {"$", "{", "}", "[", "]", "(", ")", ";", "\"", "!", "!="}

Escapes == {"\\t", "\\$"}

IsWordChunk(c) == c \notin Punct \cup Escapes \cup {Space, Newline, Continuation}

Idents == {"set", "proc", "global", "after", "expr", "if", "elseif", "else", "while",
           "cancel", "chancel", "idle", "info", "someId", "puts", "foo", "sin",
           "x", "y", "a", "b", "f", "eq", "ne", "in", "ni", "true", "false"}

Digits == {"0", "1", "2", "3", "4", "100"}

NumberTexts == Digits \cup {"-1", "+1", "1.5", "2e3"}

BooleanTexts == {"1", "0", "true", "false", "TRUE", "FALSE", "True", "False"}

----------------------------------------------------------------------------
(* Lexical layer *)

At(i) == IF i >= 1 /\ i <= Len(src) THEN src[i] ELSE ""

Lit(s, i) == IF At(i) = s THEN { R(i + 1, <<>>) } ELSE {}

RECURSIVE RunEnd(_)
RunEnd(i) == IF i <= Len(src) /\ IsWordChunk(src[i]) THEN RunEnd(i + 1) ELSE i

RunText(i) == Cat(SubSeq(src, i, RunEnd(i) - 1))

RECURSIVE LineEnd(_)
LineEnd(i) == IF i <= Len(src) /\ src[i] # Newline THEN LineEnd(i + 1) ELSE i

RECURSIVE SkipSpaces(_)
SkipSpaces(i) == IF At(i) \in {Space, Newline} THEN SkipSpaces(i + 1) ELSE i

IsEolComment(i) == At(i) = ";" /\ At(SkipSpaces(i + 1)) = "#"

RECURSIVE SkipKeepsContinuation(_, _)
SkipKeepsContinuation(i, nl) ==
    IF At(i) = Space \/ (nl /\ At(i) = Newline) THEN SkipKeepsContinuation(i + 1, nl)
    ELSE IF IsEolComment(i) THEN SkipKeepsContinuation(LineEnd(i), nl)
    ELSE i

RECURSIVE Skip(_, _)
Skip(i, nl) ==
    IF At(i) = Space \/ At(i) = Continuation \/ (nl /\ At(i) = Newline) THEN Skip(i + 1, nl)
    ELSE IF IsEolComment(i) THEN Skip(LineEnd(i), nl)
    ELSE i

RECURSIVE EolComments(_)
EolComments(i) ==
    IF i > Len(src) THEN <<>>
    ELSE IF src[i] = "#" THEN EolComments(LineEnd(i))
    ELSE IF IsEolComment(i)
         THEN <<N("end_of_line_comment", Cat(SubSeq(src, i, LineEnd(i) - 1)), <<>>)>>
              \o EolComments(LineEnd(i))
    ELSE EolComments(i + 1)

Tok(s, i, nl) == Lit(s, Skip(i, nl))

Kw(k, i) == IF RunEnd(i) > i /\ RunText(i) = k THEN { R(RunEnd(i), <<>>) } ELSE {}

_terminator(i) == Lit(Newline, i) \cup Lit(";", i)

comment(i) ==
    IF At(i) = "#"
    THEN { R(LineEnd(i), <<N("comment", Cat(SubSeq(src, i, LineEnd(i) - 1)), <<>>)>>) }
    ELSE {}

BuiltinKeywords == {"after", "append", "catch", "if", "expr", "foreach", "global",
                    "namespace", "package", "proc", "regexp", "regsub", "set", "try",
                    "while"}

simple_word_unreserved(i, start) ==
    IF RunEnd(i) > i /\ ~(start /\ At(i) = "#")
    THEN { R(RunEnd(i), <<N("simple_word", RunText(i), <<>>)>>) }
    ELSE {}

simple_word(i, start) ==
    IF RunEnd(i) > i /\ ~(start /\ (RunText(i) \in BuiltinKeywords \/ At(i) = "#"))
    THEN { R(RunEnd(i), <<N("simple_word", RunText(i), <<>>)>>) }
    ELSE {}

escaped_character(i) ==
    IF At(i) \in Escapes THEN { R(i + 1, <<N("escaped_character", At(i), <<>>)>>) } ELSE {}

_concat(i) == At(i) # "" /\ (IsWordChunk(At(i)) \/ At(i) \in Escapes \cup {"$", "[", "\"", "{"})

_number(i) ==
    IF RunEnd(i) > i /\ RunText(i) \in NumberTexts
    THEN { R(RunEnd(i), <<N("_number", RunText(i), <<>>)>>) }
    ELSE {}

_boolean(i) ==
    IF RunEnd(i) > i /\ RunText(i) \in BooleanTexts /\ RunText(i) \notin NumberTexts
    THEN { R(RunEnd(i), <<N("_boolean", RunText(i), <<>>)>>) }
    ELSE {}

----------------------------------------------------------------------------
(* Operator precedence of the expression grammar *)

PREC == [after_delay |-> 160, unary |-> 150, exp |-> 140, muldiv |-> 130,
         addsub |-> 120, shift |-> 110, compare |-> 100, equal_bool |-> 90,
         equal_string |-> 80, contain |-> 70, and_bit |-> 60, xor_bit |-> 50,
         or_bit |-> 40, and_logical |-> 30, or_logical |-> 20, ternary |-> 10]

UnaryOps == {"-", "+", "~", "!"}

BinaryOps == {"**", "/", "*", "%", "+", "-", "<<", ">>", ">", "<", ">=", "<=",
              "==", "!=", "eq", "ne", "in", "ni", "&", "^", "|", "&&", "||"}

BinPrecSwapped(op) ==
    CASE op = "**" -> PREC.exp
      [] op \in {"/", "*", "%"} -> PREC.addsub
      [] op \in {"+", "-"} -> PREC.muldiv
      [] op \in {"<<", ">>"} -> PREC.shift
      [] op \in {">", "<", ">=", "<="} -> PREC.compare
      [] op \in {"==", "!="} -> PREC.equal_bool
      [] op \in {"eq", "ne"} -> PREC.equal_string
      [] op \in {"in", "ni"} -> PREC.contain
      [] op = "&" -> PREC.and_bit
      [] op = "^" -> PREC.xor_bit
      [] op = "|" -> PREC.or_bit
      [] op = "&&" -> PREC.and_logical
      [] op = "||" -> PREC.or_logical

BinPrec(op) ==
    CASE op = "**" -> PREC.exp
      [] op \in {"/", "*", "%"} -> PREC.muldiv
      [] op \in {"+", "-"} -> PREC.addsub
      [] op \in {"<<", ">>"} -> PREC.shift
      [] op \in {">", "<", ">=", "<="} -> PREC.compare
      [] op \in {"==", "!="} -> PREC.equal_bool
      [] op \in {"eq", "ne"} -> PREC.equal_string
      [] op \in {"in", "ni"} -> PREC.contain
      [] op = "&" -> PREC.and_bit
      [] op = "^" -> PREC.xor_bit
      [] op = "|" -> PREC.or_bit
      [] op = "&&" -> PREC.and_logical
      [] op = "||" -> PREC.or_logical

BinAssocRightExp(op) == IF op = "**" THEN "right" ELSE "left"

BinAssoc(op) == "left"

UnaryPrec == PREC.unary

TernaryPrec == PREC.ternary

TernaryAssoc == "left"

----------------------------------------------------------------------------
(* Words *)

RECURSIVE Sym(_, _, _)

IdentEnd(i) ==
    LET RECURSIVE more(_)
        more(j) == IF IsWordChunk(At(j)) /\ At(j) \in Idents \cup Digits THEN more(j + 1) ELSE j
    IN  IF At(i) \in Idents THEN more(i + 1) ELSE i

_ident(i) == IF IdentEnd(i) > i THEN { R(IdentEnd(i), <<>>) } ELSE {}

_ns_delim(i) == Lit("::", i)

RECURSIVE IdTail(_)
IdTail(i) ==
    LET more == Then(Then(_ns_delim(i), _ident), IdTail)
    IN  IF more # {} THEN more ELSE Eps(i)

IdNode(i, S) == { R(r.e, <<N("id", Cat(SubSeq(src, i, r.e - 1)), <<>>)>>) : r \in S }

_id_immediate(i) == IdNode(i, Then(_ident(i) \cup Then(_ns_delim(i), _ident), IdTail))

id(i) == IdNode(i, Then(_ident(i) \cup Then(Lit("::", i), _ident), IdTail))

RECURSIVE RawUntil(_, _)
RawUntil(i, close) ==
    IF At(i) = "" \/ At(i) = close THEN i ELSE RawUntil(i + 1, close)

RawName(i) ==
    LET p == Skip(i, TRUE) e == RawUntil(p, "}")
    IN  IF e > p /\ At(e) = "}" THEN { R(e + 1, <<N("id", Cat(SubSeq(src, p, e - 1)), <<>>)>>) } ELSE {}

array_index(i) ==
    Wrap("array_index",
         Then(Then(Lit("(", i), LAMBDA j : Sym("_word_simple", Skip(j, TRUE), FALSE)),
              LAMBDA j : Tok(")", j, TRUE)))

variable_substitution(i) ==
    Wrap("variable_substitution",
         Then(Then(Lit("$", i),
                   LAMBDA j : _id_immediate(j) \cup Then(Tok("{", j, TRUE), RawName)),
              LAMBDA j : Eps(j) \cup Sym("array_index", j, FALSE)))

RECURSIVE QuotedBody(_)
QuotedBody(i) ==
    IF At(i) = "" \/ At(i) = "]" THEN {}
    ELSE IF At(i) = "\"" THEN Eps(i + 1)
    ELSE IF At(i) = "$" THEN Then(Sym("variable_substitution", i, FALSE), QuotedBody)
    ELSE IF At(i) = "[" THEN Then(Sym("command_substitution", i, FALSE), QuotedBody)
    ELSE IF At(i) \in Escapes THEN Then(escaped_character(i), QuotedBody)
    ELSE QuotedBody(i + 1)

quoted_word(i) == Wrap("quoted_word", Then(Lit("\"", i), QuotedBody))

RECURSIVE CsTail(_)
CsTail(i) ==
    LET p == Skip(i, FALSE)
    IN  Lit("]", p) \cup Then(_terminator(p), CsTail) \cup Then(Sym("_command", p, FALSE), CsTail)

command_substitution(i) ==
    Wrap("command_substitution",
         Then(Lit("[", i),
              LAMBDA j : Tok("]", j, TRUE) \cup Then(Sym("_command", Skip(j, TRUE), FALSE), CsTail)))

RECURSIVE BwTail(_), BwAfterTerminator(_)
BwTail(i) ==
    LET p == Skip(i, FALSE)
    IN  Lit("}", p) \cup Then(_terminator(p), BwAfterTerminator)

BwAfterTerminator(i) ==
    LET p == Skip(i, FALSE)
    IN  Lit("}", p) \cup Then(_terminator(p), BwAfterTerminator) \cup Then(Sym("_command", p, FALSE), BwTail)

braced_word(i) ==
    Wrap("braced_word",
         Then(Lit("{", i),
              LAMBDA j : Tok("}", j, TRUE) \cup Then(Sym("_command", Skip(j, TRUE), FALSE), BwTail)))

RECURSIVE BwsBody(_)
BwsBody(i) ==
    LET p == Skip(i, TRUE)
    IN  Lit("}", p) \cup Then(Sym("_word_simple", p, FALSE), BwsBody)

braced_word_simple(i) == Wrap("braced_word_simple", Then(Lit("{", i), BwsBody))

Interleave(frag, more(_)) ==
    UNION { IF _concat(r.e) THEN Then({r}, more) ELSE {r} : r \in frag }

_word_simple(i) ==
    Interleave(escaped_character(i) \cup Sym("command_substitution", i, FALSE) \cup simple_word(i, FALSE)
                 \cup Sym("quoted_word", i, FALSE) \cup Sym("variable_substitution", i, FALSE) \cup Sym("braced_word_simple", i, FALSE),
               LAMBDA z : Sym("_word_simple", z, FALSE))

_concat_word(i, start) ==
    Interleave(escaped_character(i) \cup Sym("command_substitution", i, FALSE)
                 \cup Then(simple_word(i, start), LAMBDA j : Eps(j) \cup Sym("array_index", j, FALSE))
                 \cup Sym("quoted_word", i, FALSE) \cup Sym("variable_substitution", i, FALSE),
               LAMBDA j : Sym("_concat_word", j, FALSE))

unpack(i) ==
    IF At(i) = "{" /\ At(i + 1) = "*" /\ At(i + 2) = "}"
    THEN { R(i + 3, <<N("unpack", "", <<>>)>>) }
    ELSE {}

_word(i, start) ==
    IF unpack(i) # {}
    THEN Then(unpack(i),
              LAMBDA j : Sym("braced_word", Skip(j, TRUE), FALSE) \cup Sym("_concat_word", Skip(j, TRUE), FALSE))
    ELSE Sym("braced_word", i, FALSE) \cup Sym("_concat_word", i, start)

RECURSIVE Words1(_)
Words1(i) == Then(Sym("_word", Skip(i, FALSE), FALSE), LAMBDA j : Eps(j) \cup Words1(j))

word_list(i) == Wrap("word_list", Words1(i))

command(i) == Wrap("command", Then(Sym("_word", i, TRUE), LAMBDA j : Eps(j) \cup Sym("word_list", j, FALSE)))

----------------------------------------------------------------------------
(* Expressions: a shift-reduce parser; a conflict between reducing the     *)
(* production on top of the stack and shifting the next operator is        *)
(* decided by the precedences and associativity declared in the grammar.   *)

RECURSIVE RunExpr(_), ExprPrimary(_)

ExprWord(i) ==
    IF RunText(i) \in NumberTexts \cup BooleanTexts THEN {} ELSE simple_word(i, FALSE)

_expr_atom_no_brace(i) ==
    _number(i) \cup _boolean(i)
      \cup Wrap("_call", Then(Then(Then(ExprWord(i), LAMBDA j : Tok("(", j, TRUE)), LAMBDA z : Sym("_expr", z, FALSE)),
                              LAMBDA j : Tok(")", j, TRUE)))
      \cup Sym("command_substitution", i, FALSE) \cup Sym("quoted_word", i, FALSE) \cup Sym("variable_substitution", i, FALSE)

ExprPrimary(i) ==
    escaped_character(i)
      \cup Then(Then(Lit("(", i), LAMBDA z : Sym("_expr", z, FALSE)), LAMBDA j : Tok(")", j, TRUE))
      \cup Sym("_expr_atom_no_brace", i, FALSE) \cup Sym("command_substitution", i, FALSE) \cup Sym("braced_word_simple", i, FALSE)

IsMark(n) == n.t \in {"#unary", "#binop", "#?", "#:"}

Mark(t, x) == N(t, x, <<>>)

LookUnary(p) ==
    IF At(p) = "!" THEN "!"
    ELSE IF RunEnd(p) > p /\ RunText(p) \in UnaryOps THEN RunText(p) ELSE ""

LookBinary(p) ==
    IF At(p) = "!=" THEN "!="
    ELSE IF RunEnd(p) > p /\ RunText(p) \in BinaryOps THEN RunText(p) ELSE ""

OpEnd(p) == IF At(p) \in {"!", "!="} THEN p + 1 ELSE RunEnd(p)

IsRun(p, t) == RunEnd(p) > p /\ RunText(p) = t

Handle(st) ==
    LET n == Len(st)
    IN  IF n >= 2 /\ ~IsMark(st[n]) /\ st[n - 1].t = "#unary" THEN "unary_expr"
        ELSE IF n >= 3 /\ ~IsMark(st[n]) /\ st[n - 1].t = "#binop" THEN "binop_expr"
        ELSE IF n >= 5 /\ ~IsMark(st[n]) /\ st[n - 1].t = "#:" /\ st[n - 3].t = "#?"
             THEN "ternary_expr"
        ELSE "none"

HandlePrec(st) ==
    CASE Handle(st) = "unary_expr" -> UnaryPrec
      [] Handle(st) = "binop_expr" -> BinPrec(st[Len(st) - 1].x)
      [] Handle(st) = "ternary_expr" -> TernaryPrec
      [] OTHER -> 0

HandleAssoc(st) ==
    CASE Handle(st) = "binop_expr" -> BinAssoc(st[Len(st) - 1].x)
      [] Handle(st) = "ternary_expr" -> TernaryAssoc
      [] OTHER -> "left"

Reduce(st) ==
    LET n == Len(st)
    IN  CASE Handle(st) = "unary_expr" ->
               SubSeq(st, 1, n - 2) \o <<N("unary_expr", st[n - 1].x, <<st[n]>>)>>
          [] Handle(st) = "binop_expr" ->
               SubSeq(st, 1, n - 3) \o <<N("binop_expr", st[n - 1].x, <<st[n - 2], st[n]>>)>>
          [] Handle(st) = "ternary_expr" ->
               SubSeq(st, 1, n - 5)
                 \o <<N("ternary_expr", "", <<st[n - 4], st[n - 2], st[n]>>)>>
          [] OTHER -> st

ShiftPrec(p) ==
    IF LookBinary(p) # "" THEN BinPrec(LookBinary(p))
    ELSE IF IsRun(p, "?") THEN TernaryPrec
    ELSE 0

Resolve(st, p) ==
    IF Handle(st) = "none" THEN "shift"
    ELSE IF HandlePrec(st) > ShiftPrec(p) THEN "reduce"
    ELSE IF HandlePrec(st) < ShiftPrec(p) THEN "shift"
    ELSE IF HandleAssoc(st) = "left" THEN "reduce"
    ELSE "shift"

Move(st, i) ==
    LET p == Skip(i, TRUE)
        n == Len(st)
    IN  IF n = 0 \/ IsMark(st[n])
        THEN IF LookUnary(p) # "" THEN "unary"
             ELSE IF ExprPrimary(p) # {} THEN "operand"
             ELSE "reject"
        ELSE IF ShiftPrec(p) > 0 THEN Resolve(st, p)
        ELSE IF Handle(st) # "none" THEN "reduce"
        ELSE IF IsRun(p, ":") /\ n >= 2 /\ st[n - 1].t = "#?" THEN "shift"
        ELSE IF n = 1 THEN "accept"
        ELSE "reject"

Shift(st, i) ==
    LET p == Skip(i, TRUE)
    IN  IF LookBinary(p) # "" THEN Append(st, Mark("#binop", LookBinary(p)))
        ELSE IF IsRun(p, "?") THEN Append(st, Mark("#?", "?"))
        ELSE Append(st, Mark("#:", ":"))

RunExpr(c) ==
    LET m == Move(c.st, c.i)
        p == Skip(c.i, TRUE)
    IN  CASE m = "accept" -> { R(c.i, <<c.st[1]>>) }
          [] m = "reject" -> {}
          [] m = "operand" ->
               UNION { RunExpr([st |-> c.st \o r.ns, i |-> r.e]) : r \in ExprPrimary(p) }
          [] m = "unary" ->
               RunExpr([st |-> Append(c.st, Mark("#unary", LookUnary(p))), i |-> OpEnd(p)])
          [] m = "shift" -> RunExpr([st |-> Shift(c.st, c.i), i |-> OpEnd(p)])
          [] m = "reduce" -> RunExpr([st |-> Reduce(c.st), i |-> c.i])

_expr(i) == RunExpr([st |-> <<>>, i |-> i])

exprUnbracedOperators(i) ==
    Wrap("expr",
         Then(Then(Lit("{", i), LAMBDA z : Sym("_expr", z, FALSE)), LAMBDA j : Tok("}", j, TRUE))
           \cup Sym("_expr", i, FALSE))

expr(i) ==
    Wrap("expr",
         Then(Then(Lit("{", i), LAMBDA z : Sym("_expr", z, FALSE)), LAMBDA j : Tok("}", j, TRUE))
           \cup Sym("_expr_atom_no_brace", i, FALSE))

----------------------------------------------------------------------------
(* Builtin commands *)

RECURSIVE SimpleWords(_)
SimpleWords(i) == Eps(i) \cup Then(simple_word(Skip(i, FALSE), FALSE), SimpleWords)

after(i) ==
    Wrap("after",
         Then(Kw("after", i),
              LAMBDA j :
                Then(_number(Skip(j, TRUE)),
                     LAMBDA k : Eps(k) \cup Sym("_word", Skip(k, FALSE), FALSE))
                  \cup Then(Kw("chancel", Skip(j, TRUE)), SimpleWords)
                  \cup Then(Kw("idle", Skip(j, TRUE)), SimpleWords)
                  \cup Then(Kw("info", Skip(j, TRUE)),
                            LAMBDA k : Eps(k) \cup simple_word(Skip(k, FALSE), FALSE))))

while(i) ==
    Wrap("while",
         Then(Then(Kw("while", i),
                   LAMBDA j :
                     LET p == Skip(j, TRUE)
                     IN  Then(Then(Lit("{", p), LAMBDA z : Sym("_expr", z, FALSE)), LAMBDA k : Tok("}", k, TRUE))
                           \cup Sym("expr", p, FALSE)),
              LAMBDA j : Sym("braced_word", Skip(j, TRUE), FALSE) \cup Sym("_word", Skip(j, TRUE), FALSE)))

expr_cmd(i) == Wrap("expr_cmd", Then(Kw("expr", i), LAMBDA j : Sym("expr", Skip(j, TRUE), FALSE)))

global(i) ==
    Wrap("global",
         Then(Then(Kw("global", i), LAMBDA j : simple_word(Skip(j, TRUE), FALSE)),
              SimpleWords))

RECURSIVE SetValues(_)
SetValues(i) == Eps(i) \cup Then(Sym("_word_simple", Skip(i, FALSE), FALSE), SetValues)

setManyValues(i) ==
    Wrap("set",
         Then(Then(Kw("set", i),
                   LAMBDA j :
                     LET p == Skip(j, TRUE)
                     IN  Then(id(p), LAMBDA k : Eps(k) \cup Sym("array_index", k, FALSE))
                           \cup { R(r.e, <<>>) :
                                  r \in Then(Then(Lit("$", p), LAMBDA k : Tok("{", k, TRUE)),
                                             RawName) }),
              SetValues))

set(i) ==
    Wrap("set",
         Then(Then(Kw("set", i),
                   LAMBDA j :
                     LET p == Skip(j, TRUE)
                     IN  Then(id(p), LAMBDA k : Eps(k) \cup Sym("array_index", k, FALSE))
                           \cup { R(r.e, <<>>) :
                                  r \in Then(Then(Lit("$", p), LAMBDA k : Tok("{", k, TRUE)),
                                             RawName) }),
              LAMBDA j : Eps(j) \cup Sym("_word_simple", Skip(j, FALSE), FALSE)))

_argument_word(i) == simple_word(i, FALSE) \cup Sym("quoted_word", i, FALSE) \cup Sym("braced_word", i, FALSE)

argument(i) ==
    Wrap("argument",
         simple_word(i, FALSE)
           \cup Then(Then(Then(Lit("{", i), LAMBDA j : simple_word(Skip(j, TRUE), FALSE)),
                          LAMBDA j : Eps(j) \cup Sym("_argument_word", Skip(j, TRUE), FALSE)),
                     LAMBDA j : Tok("}", j, TRUE)))

RECURSIVE ArgumentsBody(_)
ArgumentsBody(i) ==
    LET p == Skip(i, TRUE)
    IN  Lit("}", p) \cup Then(Sym("argument", p, FALSE), ArgumentsBody)

arguments(i) == Wrap("arguments", Then(Lit("{", i), ArgumentsBody) \cup simple_word(i, FALSE))

procedure(i) ==
    Wrap("procedure",
         Then(Then(Then(Kw("proc", i), LAMBDA j : Sym("_word", Skip(j, TRUE), FALSE)),
                   LAMBDA j : Sym("arguments", Skip(j, TRUE), FALSE)),
              LAMBDA j : Sym("_word", Skip(j, TRUE), FALSE)))

elseif(i) ==
    Wrap("elseif",
         Then(Then(Kw("elseif", i), LAMBDA j : Sym("expr", Skip(j, TRUE), FALSE)),
              LAMBDA j : Sym("_word", Skip(j, TRUE), FALSE)))

else(i) == Wrap("else", Then(Kw("else", i), LAMBDA j : Sym("_word", Skip(j, TRUE), FALSE)))

RECURSIVE Elseifs(_)
Elseifs(i) == Eps(i) \cup Then(Sym("elseif", Skip(i, FALSE), FALSE), Elseifs)

conditional(i) ==
    Wrap("conditional",
         Then(Then(Then(Then(Kw("if", i), LAMBDA j : Sym("expr", Skip(j, TRUE), FALSE)),
                        LAMBDA j : Sym("_word", Skip(j, TRUE), FALSE)),
                   Elseifs),
              LAMBDA j : Eps(j) \cup Sym("else", Skip(j, FALSE), FALSE)))

RECURSIVE AppendValues(_)
AppendValues(i) ==
    LET p == Skip(i, FALSE)
    IN  Eps(i) \cup Then(simple_word(p, FALSE) \cup Sym("variable_substitution", p, FALSE)
                           \cup Sym("quoted_word", p, FALSE) \cup Sym("braced_word", p, FALSE)
                           \cup Sym("command_substitution", p, FALSE),
                         AppendValues)

append(i) ==
    Wrap("append",
         Then(Then(Kw("append", i), LAMBDA j : simple_word(Skip(j, TRUE), FALSE)),
              AppendValues))

KwIn(ks, i) == IF RunEnd(i) > i /\ RunText(i) \in ks THEN { R(RunEnd(i), <<>>) } ELSE {}

(* A string token wins over simple_word where both match the same text. *)
OptKw(ks, i, nl) ==
    IF KwIn(ks, Skip(i, nl)) # {} THEN KwIn(ks, Skip(i, nl)) ELSE Eps(i)

OptWord(i) == Eps(i) \cup simple_word(Skip(i, FALSE), FALSE)

package(i) ==
    Wrap("package",
         Then(Then(Kw("package", i), LAMBDA j : KwIn({"forget", "ifneeded", "names", "present", "provide", "require",
                                  "unknown", "vcompare", "versions", "vsatisfies"},
                                 Skip(j, TRUE))),
              LAMBDA j :
                Eps(j)
                  \cup Then(Then(OptKw({"-exact"}, j, FALSE),
                                 LAMBDA k : simple_word(Skip(k, FALSE), FALSE)),
                            OptWord)))

RECURSIVE ConcatWords(_)
ConcatWords(i) == Eps(i) \cup Then(Sym("_concat_word", Skip(i, FALSE), FALSE), ConcatWords)

regexp(i) ==
    Wrap("regexp",
         Then(Then(Then(Kw("regexp", i), LAMBDA j : Sym("_word_simple", Skip(j, TRUE), FALSE)),
                   LAMBDA j : Sym("_concat_word", Skip(j, TRUE), FALSE)),
              ConcatWords))

IsRegsubFlag(i) ==
    /\ RunEnd(i) > i
    /\ RunText(i) \in {"-all", "-expanded", "-line", "-linestop", "-lineanchor", "-nocase",
                       "-start", "--"}

(* The token " ": of the whitespace before it, the lexer skips what is not a
   space, and the first space is the token. *)
RECURSIVE SpaceToken(_)
SpaceToken(i) ==
    IF At(i) = Space THEN { R(i + 1, <<>>) }
    ELSE IF At(i) \in {Newline, Continuation} THEN SpaceToken(i + 1)
    ELSE IF IsEolComment(i) THEN SpaceToken(LineEnd(i))
    ELSE {}

(* prec.left: after one switch and its " " the rule is reduced, so that a
   further switch starts the next regsub_switch. *)
regsub_switch(i) ==
    Wrap("regsub_switch",
         Then(IF ~IsRegsubFlag(i) THEN {}
              ELSE IF RunText(i) = "-start"
                   THEN Then(Kw("-start", i), LAMBDA j : _number(Skip(j, TRUE)))
              ELSE Kw(RunText(i), i),
              SpaceToken))

RECURSIVE RegsubSwitches1(_)
RegsubSwitches1(i) ==
    Then(regsub_switch(Skip(i, TRUE)),
         LAMBDA j : IF IsRegsubFlag(Skip(j, TRUE)) THEN RegsubSwitches1(j) ELSE Eps(j))

regsub_switches(i) == Wrap("regsub_switches", RegsubSwitches1(i))

RawToken(open, close, i) ==
    IF At(i) = open /\ At(RawUntil(i + 1, close)) = close
    THEN { R(RawUntil(i + 1, close) + 1, <<>>) }
    ELSE {}

regsub_literal(i) ==
    Wrap("regsub_literal",
         RawToken("{", "}", i) \cup RawToken("\"", "\"", i) \cup simple_word(i, FALSE))

regsub(i) ==
    Wrap("regsub",
         Then(Then(Then(Then(Then(Kw("regsub", i),
                                  LAMBDA j : IF IsRegsubFlag(Skip(j, TRUE))
                                             THEN regsub_switches(j) ELSE Eps(j)),
                             LAMBDA j : regsub_literal(Skip(j, TRUE))),
                        LAMBDA j : Sym("_word", Skip(j, TRUE), FALSE)),
                   LAMBDA j : regsub_literal(Skip(j, TRUE))),
              OptWord))

RECURSIVE ForeachPairs(_)
ForeachPairs(i) ==
    Then(Then(Sym("_word", Skip(i, TRUE), FALSE), LAMBDA j : Sym("_word", Skip(j, TRUE), FALSE)),
         LAMBDA j : Eps(j) \cup ForeachPairs(j))

foreach(i) ==
    Wrap("foreach",
         Then(Then(Kw("foreach", i), ForeachPairs),
              LAMBDA j : Sym("_word", Skip(j, TRUE), FALSE)))

Sub(k, i) == Kw(k, Skip(i, TRUE))

Word1(i) == simple_word(Skip(i, TRUE), FALSE)

namespace(i) ==
    Wrap("namespace",
         Then(Kw("namespace", i),
              LAMBDA j :
                Then(Then(Sub("children", j), OptWord), OptWord)
                  \cup Then(Sub("code", j), LAMBDA k : Sym("_word", Skip(k, TRUE), FALSE))
                  \cup Sub("current", j)
                  \cup Then(Then(Sub("delete", j), Word1), SimpleWords)
                  \cup Then(Then(Sub("eval", j), Word1), LAMBDA k : Eps(k) \cup Words1(k))
                  \cup Then(Sub("exists", j), Word1)
                  \cup Then(Then(Sub("export", j), LAMBDA k : OptKw({"-clear"}, k, FALSE)),
                            SimpleWords)
                  \cup Then(Sub("forget", j), SimpleWords)
                  \cup Then(Then(Sub("import", j), LAMBDA k : OptKw({"-force"}, k, FALSE)),
                            SimpleWords)
                  \cup Then(Then(Then(Sub("inscope", j), Word1),
                                 LAMBDA k : Sym("_word", Skip(k, TRUE), FALSE)),
                            LAMBDA k : Eps(k) \cup Words1(k))
                  \cup Then(Sub("origin", j), Word1)
                  \cup Then(Sub("parent", j), OptWord)
                  \cup Then(Sub("qualifiers", j), Word1)
                  \cup Then(Sub("tail", j), Word1)
                  \cup Then(Then(Sub("which", j),
                                 LAMBDA k : OptKw({"-command", "-variable"}, k, TRUE)),
                            Word1)))

finally(i) == Wrap("finally", Then(Kw("finally", i), LAMBDA j : Sym("_word", Skip(j, TRUE), FALSE)))

try(i) ==
    Wrap("try",
         Then(Then(Then(Kw("try", i), LAMBDA j : Sym("_word", Skip(j, TRUE), FALSE)),
                   LAMBDA j :
                     Eps(j)
                       \cup Then(Then(Then(Kw("on", Skip(j, FALSE)), LAMBDA k : Sub("error", k)),
                                      LAMBDA k : Sym("arguments", Skip(k, TRUE), FALSE)),
                                 LAMBDA k : Sym("_word", Skip(k, TRUE), FALSE))),
              LAMBDA j : Eps(j) \cup finally(Skip(j, FALSE))))

catch(i) ==
    Wrap("catch",
         Then(Then(Kw("catch", i), LAMBDA j : Sym("_word", Skip(j, TRUE), FALSE)),
              LAMBDA j : Eps(j) \cup Sym("_concat_word", Skip(j, FALSE), FALSE)))

_builtin(i) ==
    Sym("after", i, FALSE) \cup Sym("append", i, FALSE) \cup Sym("catch", i, FALSE)
      \cup Sym("conditional", i, FALSE) \cup Sym("expr_cmd", i, FALSE)
      \cup Sym("foreach", i, FALSE) \cup Sym("global", i, FALSE)
      \cup Sym("namespace", i, FALSE) \cup Sym("package", i, FALSE)
      \cup Sym("procedure", i, FALSE) \cup Sym("regexp", i, FALSE)
      \cup Sym("regsub", i, FALSE) \cup Sym("set", i, FALSE) \cup Sym("try", i, FALSE)
      \cup Sym("while", i, FALSE)

_command(i) == Sym("_builtin", i, FALSE) \cup Sym("command", i, FALSE)

(* The rules object of the grammar: a rule refers to another by its name. *)
Sym(name, i, start) ==
    CASE name = "_word" -> _word(i, start)
      [] name = "_concat_word" -> _concat_word(i, start)
      [] name = "_word_simple" -> _word_simple(i)
      [] name = "array_index" -> array_index(i)
      [] name = "variable_substitution" -> variable_substitution(i)
      [] name = "braced_word" -> braced_word(i)
      [] name = "braced_word_simple" -> braced_word_simple(i)
      [] name = "quoted_word" -> quoted_word(i)
      [] name = "command_substitution" -> command_substitution(i)
      [] name = "command" -> command(i)
      [] name = "word_list" -> word_list(i)
      [] name = "_expr_atom_no_brace" -> _expr_atom_no_brace(i)
      [] name = "_expr" -> _expr(i)
      [] name = "expr" -> expr(i)
      [] name = "after" -> after(i)
      [] name = "while" -> while(i)
      [] name = "expr_cmd" -> expr_cmd(i)
      [] name = "global" -> global(i)
      [] name = "set" -> set(i)
      [] name = "_argument_word" -> _argument_word(i)
      [] name = "argument" -> argument(i)
      [] name = "arguments" -> arguments(i)
      [] name = "procedure" -> procedure(i)
      [] name = "elseif" -> elseif(i)
      [] name = "else" -> else(i)
      [] name = "conditional" -> conditional(i)
      [] name = "append" -> append(i)
      [] name = "catch" -> catch(i)
      [] name = "foreach" -> foreach(i)
      [] name = "namespace" -> namespace(i)
      [] name = "package" -> package(i)
      [] name = "regexp" -> regexp(i)
      [] name = "regsub" -> regsub(i)
      [] name = "try" -> try(i)
      [] name = "_builtin" -> _builtin(i)
      [] name = "_command" -> _command(i)

----------------------------------------------------------------------------
(* The top-level driver: source_file is a repetition of items, each an     *)
(* optional comment or command followed by a terminator.                   *)

ItemStart == Skip(pos, FALSE)

AfterTerminator(S) == Then(S, LAMBDA j : _terminator(Skip(j, FALSE)))

source_file_command == AfterTerminator(Sym("_command", ItemStart, FALSE))

source_file_comment == AfterTerminator(comment(ItemStart))

source_file_empty == AfterTerminator(Eps(ItemStart))

AtEnd == ItemStart > Len(src)

Tree == [items |-> items, extras |-> EolComments(1), status |-> status]

----------------------------------------------------------------------------
(* Inputs of the driver: MaxFill or fewer filler commands, each with its   *)
(* terminator, then the command under test and what follows it; and the    *)
(* same script with one piece of trivia added, parsed before the script    *)
(* itself so that the two trees can be compared.                           *)

MaxFill == 1

Filler == <<"puts", " ", "a">>

Frags == {<<"$", "a">>, <<"$", "b">>, <<"[", "foo", "]">>, <<"\"", "a", "\"">>}

SetJoined(f, g) == <<"set", " ", "x", " ">> \o f \o g

SetSpaced(f, g) == <<"set", " ", "x", " ">> \o f \o <<" ">> \o g

SetCmds == { SetJoined(f, g) : f, g \in Frags } \cup { SetSpaced(f, g) : f, g \in Frags }

OperatorForms == {<<"$", "x", " ", "+", " ", "$", "y">>, <<"-", " ", "$", "x">>,
                  <<"$", "x", " ", "?", " ", "1", " ", ":", " ", "2">>}

Braced(c) == <<"{">> \o c \o <<"}">>

Body == <<"{", "puts", " ", "1", "}">>

ExprCmd(c) == <<"expr", " ">> \o c

IfCmd(c) == <<"if", " ">> \o c \o <<" ">> \o Body

ElseifCmd(c) == <<"if", " ", "{", "1", "}", " ">> \o Body \o <<" ", "elseif", " ">> \o c \o <<" ">> \o Body

WhileCmd(c) == <<"while", " ">> \o c \o <<" ">> \o Body

CondCmds(c) == {ExprCmd(c), IfCmd(c), ElseifCmd(c), WhileCmd(c)}

UnbracedAtomCmds ==
    UNION { CondCmds(a) : a \in {<<"1">>, <<"true">>, <<"sin", "(", "1", ")">>, <<"[", "foo", "]">>,
                                  <<"\"", "a", "\"">>, <<"$", "x">>} }

UnbracedOperatorCmds == UNION { CondCmds(o) : o \in OperatorForms }

BracedCmds == UNION { CondCmds(Braced(c)) : c \in OperatorForms \cup {<<"$", "x">>} }

RawExprCmds ==
    { <<"expr", " ", "{", "1", " ", "+", " ", "{">> \o c \o <<"}", "}">> :
        c \in {<<"raw", " ", "text">>, <<"$", "x">>, <<"[", "foo", "]">>,
               <<"\"", "a", "\"">>, <<"{", "a", "}">>} }

NotBareKeywordCmds ==
    {<<"::", "set", " ", "x", " ", "1">>, <<"$", "x", " ", "a">>, <<"[", "foo", "]", " ", "a">>,
     <<"\"", "set", "\"", " ", "x", " ", "1">>, <<"{", "foo", "}", " ", "x", " ", "1">>,
     <<"{", "set", "}", " ", "x", " ", "1">>, <<"foo", "$", "x", " ", "1">>,
     <<"$", "x", "set", " ", "y", " ", "1">>, <<"set", "$", "{", "x", "}", " ", "1">>,
     <<"x", "::", "set", " ", "y", " ", "1">>}

MalformedBuiltinCmds ==
    {<<"proc", " ", "f", " ", "{", "}">>, <<"global">>, <<"proc", " ", "f">>, <<"set">>,
     <<"if", " ", "{", "1", "}">>, <<"while", " ", "{", "1", "}">>, <<"expr">>, <<"after">>}

AfterCmds ==
    {<<"after", " ", "100">>, <<"after", " ", "100", " ", "{", "puts", " ", "a", "}">>,
     <<"after", " ", "cancel", " ", "someId">>, <<"after", " ", "chancel", " ", "someId">>,
     <<"after", " ", "idle", " ", "foo">>, <<"after", " ", "info">>,
     <<"after", " ", "info", " ", "someId">>}

OtherCmds ==
    {<<"set", " ", "x", " ", "1">>, <<"puts", " ", "a", " ", "b">>, <<"global", " ", "a", " ", "b">>,
     <<"proc", " ", "f", " ", "{", "a", " ", "{", "b", " ", "1", "}", "}", " ", "{", "return", " ", "$", "x", "}">>,
     <<"set", " ", "::", "a", "::", "b", " ", "1">>, <<"foo">>}

BuiltinCmds ==
    {<<"append", " ", "x", " ", "a", " ", "$", "b">>,
     <<"catch", " ", "{", "foo", "}", " ", "err">>,
     <<"foreach", " ", "a", " ", "$", "x", " ", "{", "puts", " ", "a", "}">>,
     <<"namespace", " ", "eval", " ", "foo", " ", "{", "puts", " ", "a", "}">>,
     <<"package", " ", "require", " ", "-exact", " ", "foo", " ", "1">>,
     <<"regexp", " ", "a", " ", "$", "x", " ", "m">>,
     <<"regsub", " ", "-all", " ", "{", "a", "}", " ", "$", "x", " ", "b", " ", "y">>,
     <<"try", " ", "{", "foo", "}", " ", "on", " ", "error", " ", "{", "a", " ", "b", "}", " ",
       "{", "puts", " ", "a", "}", " ", "finally", " ", "{", "puts", " ", "b", "}">>}

Commands ==
    SetCmds \cup UnbracedAtomCmds \cup UnbracedOperatorCmds \cup BracedCmds \cup RawExprCmds
      \cup NotBareKeywordCmds \cup MalformedBuiltinCmds \cup AfterCmds \cup OtherCmds
      \cup BuiltinCmds

RECURSIVE FillChunks(_)
FillChunks(fill) ==
    IF fill = <<>> THEN <<>> ELSE Filler \o <<Head(fill)>> \o FillChunks(Tail(fill))

Base(in) == FillChunks(in.fill) \o in.cmd \o in.end

Fills == UNION { [1..n -> {Newline, ";"}] : n \in 0..MaxFill }

(* A comment line goes before an item, an end-of-line comment before the
   newline that ends an item, a line continuation between two words. *)
TriviaAt(in, kind) ==
    CASE kind = "comment" -> { 1 + k * (Len(Filler) + 1) : k \in 0..Len(in.fill) }
      [] kind = "eol" ->
           { k * (Len(Filler) + 1) : k \in { j \in 1..Len(in.fill) : in.fill[j] = Newline } }
             \cup (IF in.end # <<>> /\ in.end[Len(in.end)] = Newline
                   THEN {Len(Base(in))} ELSE {})
      [] kind = "continuation" -> { k \in 2..Len(Base(in)) : Base(in)[k - 1] = Space }
      [] OTHER -> {}

TriviaChunks(kind) ==
    CASE kind = "comment" -> <<"#", " ", "c", Newline>>
      [] kind = "eol" -> <<" ", ";", "#", "c">>
      [] kind = "continuation" -> <<Continuation>>
      [] OTHER -> <<>>

TriviaCmds == OtherCmds \cup { IfCmd(Braced(c)) : c \in OperatorForms }

Plain ==
    [fill : Fills, cmd : Commands, end : {<<>>, <<Newline>>, <<";">>, <<";", Newline>>},
     trivia : {"none"}, at : {0}]

Inputs ==
    Plain \cup
      UNION { { [in EXCEPT !.trivia = kind, !.at = k] : k \in TriviaAt(in, kind) } :
              <<in, kind>> \in { q \in Plain : q.cmd \in TriviaCmds }
                                 \X {"comment", "eol", "continuation"} }

WithTrivia(in) ==
    IF in.trivia = "none" THEN Base(in)
    ELSE SubSeq(Base(in), 1, in.at - 1) \o TriviaChunks(in.trivia)
           \o SubSeq(Base(in), in.at, Len(Base(in)))

Init ==
    /\ inp \in Inputs
    /\ src = WithTrivia(inp)
    /\ rest = IF inp.trivia = "none" THEN <<>> ELSE <<Base(inp)>>
    /\ prev = <<>>
    /\ pos = 1
    /\ items = <<>>
    /\ status = "run"
    /\ stack = <<>>
    /\ epos = 0
    /\ estatus = "idle"

ParseCommand ==
    /\ status = "run"
    /\ \E r \in source_file_command :
          /\ items' = items \o r.ns
          /\ pos' = r.e
    /\ UNCHANGED <<inp, src, rest, prev, status, stack, epos, estatus>>

ParseComment ==
    /\ status = "run"
    /\ \E r \in source_file_comment :
          /\ items' = items \o r.ns
          /\ pos' = r.e
    /\ UNCHANGED <<inp, src, rest, prev, status, stack, epos, estatus>>

ParseEmpty ==
    /\ status = "run"
    /\ \E r \in source_file_empty : pos' = r.e
    /\ UNCHANGED <<inp, src, rest, prev, items, status, stack, epos, estatus>>

Accept ==
    /\ status = "run"
    /\ AtEnd
    /\ status' = "accept"
    /\ UNCHANGED <<inp, src, rest, prev, pos, items, stack, epos, estatus>>

Reject ==
    /\ status = "run"
    /\ ~AtEnd
    /\ source_file_command \cup source_file_comment \cup source_file_empty = {}
    /\ status' = "error"
    /\ UNCHANGED <<inp, src, rest, prev, pos, items, stack, epos, estatus>>

Reparse ==
    /\ status \in {"accept", "error"}
    /\ rest # <<>>
    /\ prev' = Append(prev, Tree)
    /\ src' = Head(rest)
    /\ rest' = Tail(rest)
    /\ pos' = 1
    /\ items' = <<>>
    /\ status' = "run"
    /\ UNCHANGED <<inp, stack, epos, estatus>>

Next == ParseCommand \/ ParseComment \/ ParseEmpty \/ Accept \/ Reject \/ Reparse

Spec == Init /\ [][Next]_vars

----------------------------------------------------------------------------
(* The expression parser on its own: the text between the braces of        *)
(* expr {...}, one move of the shift-reduce parser per step.               *)

MaxOps == 2

Operand(k) == <<"1", "2", "3", "4">>[((k - 1) % 4) + 1]

Chain(ops) ==
    [k \in 1..(2 * Len(ops) + 1) |->
       IF k % 2 = 1 THEN Operand((k + 1) \div 2) ELSE ops[k \div 2]]

Chains == { Chain(ops) : ops \in UNION { [1..n -> BinaryOps] : n \in 0..MaxOps } }

UnaryForms ==
    { <<u, "1", op, "2">> : u \in UnaryOps, op \in BinaryOps }
      \cup { <<"1", op, u, "2">> : u \in UnaryOps, op \in BinaryOps }
      \cup { <<u, v, "1">> : u, v \in UnaryOps }

TernaryForms ==
    { <<"1", op, "2", "?", "3", ":", "4">> : op \in BinaryOps }
      \cup { <<"1", "?", "2", ":", "3", op, "4">> : op \in BinaryOps }
      \cup { <<"1", "?", "2", op, "3", ":", "4">> : op \in BinaryOps }
      \cup { <<u, "1", "?", "2", ":", "3">> : u \in UnaryOps }
      \cup {<<"1", "?", "2", ":", "3", "?", "4", ":", "1">>,
            <<"1", "?", "2", "?", "3", ":", "4", ":", "1">>}

ParenForms ==
    { <<"(", "1", op, "2", ")", "**", "3">> : op \in BinaryOps }
      \cup { <<"1", "**", "(", "2", op, "3", ")">> : op \in BinaryOps }

MalformedForms ==
    {<<"1", "+">>, <<"*", "1">>, <<"1", "2">>, <<"1", "?", "2">>, <<"1", ":", "2">>,
     <<"(", "1", "+", "2">>, <<>>}

ExprInputs ==
    [family : {"chain"}, toks : Chains] \cup [family : {"unary"}, toks : UnaryForms]
      \cup [family : {"ternary"}, toks : TernaryForms]
      \cup [family : {"paren"}, toks : ParenForms]
      \cup [family : {"malformed"}, toks : MalformedForms]

Spaced(ts) ==
    [k \in 1..(IF ts = <<>> THEN 0 ELSE 2 * Len(ts) - 1) |->
       IF k % 2 = 1 THEN ts[(k + 1) \div 2] ELSE Space]

InitExpr ==
    /\ inp \in ExprInputs
    /\ src = <<"{">> \o Spaced(inp.toks) \o <<"}">>
    /\ rest = <<>>
    /\ prev = <<>>
    /\ pos = 1
    /\ items = <<>>
    /\ status = "idle"
    /\ stack = <<>>
    /\ epos = 2
    /\ estatus = "run"

ExprUnary ==
    /\ estatus = "run"
    /\ Move(stack, epos) = "unary"
    /\ stack' = Append(stack, Mark("#unary", LookUnary(Skip(epos, TRUE))))
    /\ epos' = OpEnd(Skip(epos, TRUE))
    /\ UNCHANGED <<inp, src, rest, prev, pos, items, status, estatus>>

ExprOperand ==
    /\ estatus = "run"
    /\ Move(stack, epos) = "operand"
    /\ \E r \in ExprPrimary(Skip(epos, TRUE)) :
          /\ stack' = stack \o r.ns
          /\ epos' = r.e
    /\ UNCHANGED <<inp, src, rest, prev, pos, items, status, estatus>>

ExprShift ==
    /\ estatus = "run"
    /\ Move(stack, epos) = "shift"
    /\ stack' = Shift(stack, epos)
    /\ epos' = OpEnd(Skip(epos, TRUE))
    /\ UNCHANGED <<inp, src, rest, prev, pos, items, status, estatus>>

ExprReduce ==
    /\ estatus = "run"
    /\ Move(stack, epos) = "reduce"
    /\ stack' = Reduce(stack)
    /\ UNCHANGED <<inp, src, rest, prev, pos, items, status, epos, estatus>>

ExprClosed == Move(stack, epos) = "accept" /\ Tok("}", epos, TRUE) # {}

ExprAccept ==
    /\ estatus = "run"
    /\ ExprClosed
    /\ estatus' = "accept"
    /\ UNCHANGED <<inp, src, rest, prev, pos, items, status, stack, epos>>

ExprReject ==
    /\ estatus = "run"
    /\ Move(stack, epos) \in {"accept", "reject"}
    /\ ~ExprClosed
    /\ estatus' = "error"
    /\ UNCHANGED <<inp, src, rest, prev, pos, items, status, stack, epos>>

NextExpr ==
    ExprUnary \/ ExprOperand \/ ExprShift \/ ExprReduce \/ ExprAccept \/ ExprReject

ExprSpec == InitExpr /\ [][NextExpr]_vars

----------------------------------------------------------------------------
(* Properties of the expression parser, checked under ExprSpec.            *)

RECURSIVE Nodes(_)
Nodes(n) == {n} \cup UNION { Nodes(n.k[j]) : j \in 1..Len(n.k) }

RECURSIVE Flatten(_)
Flatten(n) ==
    CASE n.t = "binop_expr" -> Flatten(n.k[1]) \o <<n.x>> \o Flatten(n.k[2])
      [] n.t = "unary_expr" -> <<n.x>> \o Flatten(n.k[1])
      [] n.t = "ternary_expr" ->
           Flatten(n.k[1]) \o <<"?">> \o Flatten(n.k[2]) \o <<":">> \o Flatten(n.k[3])
      [] OTHER -> <<n.x>>

Num(x) == N("_number", x, <<>>)

Bin(op, l, r) == N("binop_expr", op, <<l, r>>)

Un(op, e) == N("unary_expr", op, <<e>>)

Tern(c, a, b) == N("ternary_expr", "", <<c, a, b>>)

(* The level of a binary operator in the precedence table of the           *)
(* specification: 14 for ** down to 2 for ||.                              *)
Level(op) ==
    CASE op = "**" -> 14
      [] op \in {"*", "/", "%"} -> 13
      [] op \in {"+", "-"} -> 12
      [] op \in {"<<", ">>"} -> 11
      [] op \in {">", "<", ">=", "<="} -> 10
      [] op \in {"==", "!="} -> 9
      [] op \in {"eq", "ne"} -> 8
      [] op \in {"in", "ni"} -> 7
      [] op = "&" -> 6
      [] op = "^" -> 5
      [] op = "|" -> 4
      [] op = "&&" -> 3
      [] op = "||" -> 2

ExprTree == stack[1]

IsPair(ts) == Len(ts) = 5 /\ ts[2] \in BinaryOps /\ ts[4] \in BinaryOps

LeftNested(ts) == Bin(ts[4], Bin(ts[2], Num(ts[1]), Num(ts[3])), Num(ts[5]))

RightNested(ts) == Bin(ts[2], Num(ts[1]), Bin(ts[4], Num(ts[3]), Num(ts[5])))

WellFormedFamily == inp.family \in {"chain", "unary", "ternary"}

(* C1: in a braced expression, of two binary operators of different levels *)
(* the one of the higher level binds tighter, whichever comes first; in a  *)
(* chain of any length no operator has an operand built by an operator of  *)
(* a lower level; a unary operator binds tighter than every binary         *)
(* operator and the ternary operator looser than every binary operator.    *)
C1_PrecedenceLevels ==
    /\ WellFormedFamily => estatus # "error"
    /\ estatus = "accept" /\ WellFormedFamily =>
          /\ Len(stack) = 1
          /\ Flatten(ExprTree) = inp.toks
    /\ estatus = "accept" /\ inp.family = "chain" =>
          /\ \A n \in Nodes(ExprTree) : \A j \in 1..Len(n.k) :
                n.t = "binop_expr" /\ n.k[j].t = "binop_expr" => Level(n.k[j].x) >= Level(n.x)
          /\ IsPair(inp.toks) /\ Level(inp.toks[2]) > Level(inp.toks[4]) =>
                ExprTree = LeftNested(inp.toks)
          /\ IsPair(inp.toks) /\ Level(inp.toks[2]) < Level(inp.toks[4]) =>
                ExprTree = RightNested(inp.toks)
    /\ estatus = "accept" /\ inp.family = "unary" =>
          \A u \in UnaryOps, op \in BinaryOps :
            /\ inp.toks = <<u, "1", op, "2">> => ExprTree = Bin(op, Un(u, Num("1")), Num("2"))
            /\ inp.toks = <<"1", op, u, "2">> => ExprTree = Bin(op, Num("1"), Un(u, Num("2")))
    /\ estatus = "accept" /\ inp.family = "ternary" =>
          \A op \in BinaryOps :
            /\ inp.toks = <<"1", op, "2", "?", "3", ":", "4">> =>
                  ExprTree = Tern(Bin(op, Num("1"), Num("2")), Num("3"), Num("4"))
            /\ inp.toks = <<"1", "?", "2", ":", "3", op, "4">> =>
                  ExprTree = Tern(Num("1"), Num("2"), Bin(op, Num("3"), Num("4")))
            /\ inp.toks = <<"1", "?", "2", op, "3", ":", "4">> =>
                  ExprTree = Tern(Num("1"), Bin(op, Num("2"), Num("3")), Num("4"))

C1_Witness ==
    /\ estatus = "accept"
    /\ inp.toks = <<"1", "+", "2", "*", "3">>
    /\ stack = <<Bin("+", Num("1"), Bin("*", Num("2"), Num("3")))>>

(* C7: binary operators of one level group to the left, ** included: the   *)
(* right operand of an operator is never built by an operator of the same  *)
(* level, and a op b op c yields Binary(op, Binary(op, a, b), c).          *)
C7_LeftAssociative ==
    estatus = "accept" /\ inp.family = "chain" =>
      /\ \A n \in Nodes(ExprTree) :
            n.t = "binop_expr" /\ n.k[2].t = "binop_expr" => Level(n.k[2].x) # Level(n.x)
      /\ IsPair(inp.toks) /\ Level(inp.toks[2]) = Level(inp.toks[4]) =>
            ExprTree = LeftNested(inp.toks)

C7_Witness ==
    /\ estatus = "accept"
    /\ inp.toks = <<"1", "**", "2", "**", "3">>
    /\ stack = <<Bin("**", Bin("**", Num("1"), Num("2")), Num("3"))>>

----------------------------------------------------------------------------
(* Properties of the parse of a script, checked under Spec.                *)

(* The script itself (not its copy with trivia) has been parsed to the end *)
(* or to the first place where no rule applies.                            *)
Parsed == status \in {"accept", "error"} /\ src = Base(inp)

Terminated == inp.end # <<>>

AllNodes(its) == UNION { Nodes(its[j]) : j \in 1..Len(its) }

CommandAccepted == status = "accept" /\ Len(items) = Len(inp.fill) + 1

CmdNode == items[Len(items)]

BuiltinTypes ==
    {"after", "append", "catch", "conditional", "expr_cmd", "foreach", "global", "namespace",
     "package", "procedure", "regexp", "regsub", "set", "try", "while"}

KeywordNamed(n) ==
    n.t = "command" /\ n.k[1].t = "simple_word" /\ n.k[1].x \in BuiltinKeywords

(* C2: a command whose first word is namespace-qualified, a substitution,  *)
(* a quoted word, a braced word or a concatenation containing a keyword is *)
(* parsed as a generic command and never as a builtin; a command whose     *)
(* first word is exactly a builtin keyword is parsed by that builtin.      *)
C2_OnlyBarewordKeywordDispatches ==
    Parsed /\ Terminated =>
      /\ inp.cmd \in NotBareKeywordCmds => CommandAccepted /\ CmdNode.t = "command"
      /\ inp.cmd \in OtherCmds \cup BuiltinCmds /\ Head(inp.cmd) \in BuiltinKeywords =>
            CommandAccepted /\ CmdNode.t \in BuiltinTypes

SpacedCmds == { SetSpaced(f, g) : f, g \in Frags }

FragNode(f) ==
    CASE f[1] = "$" -> N("variable_substitution", "", <<N("id", f[2], <<>>)>>)
      [] f[1] = "[" ->
           N("command_substitution", "", <<N("command", "", <<N("simple_word", f[2], <<>>)>>)>>)
      [] f[1] = "\"" -> N("quoted_word", "", <<>>)

(* C4: white space alone decides word boundaries.  In a terminated command *)
(* set x F G, two fragments F and G with no white space between them are   *)
(* one value word and the command is a set node holding the name and the   *)
(* two fragments; with white space between them they are two words and the *)
(* set grammar, which takes at most one value word, rejects the command.   *)
C4_WhitespaceDecidesWords ==
    Parsed /\ Terminated =>
      /\ \A f, g \in Frags :
            inp.cmd = SetJoined(f, g) =>
              /\ CommandAccepted
              /\ CmdNode = N("set", "", <<N("id", "x", <<>>), FragNode(f), FragNode(g)>>)
      /\ inp.cmd \in SpacedCmds => status = "error" /\ Len(items) = Len(inp.fill)

C4_Witness ==
    /\ Parsed
    /\ inp.cmd = SetJoined(<<"$", "a">>, <<"$", "b">>)
    /\ CommandAccepted
    /\ CmdNode.t = "set"
    /\ Len(CmdNode.k) = 3

AtomTypes == {"_number", "_boolean", "_call", "command_substitution", "quoted_word",
             "variable_substitution"}

OperatorType(c) ==
    CASE c = <<"$", "x", " ", "+", " ", "$", "y">> -> "binop_expr"
      [] c = <<"-", " ", "$", "x">> -> "unary_expr"
      [] c = <<"$", "x", " ", "?", " ", "1", " ", ":", " ", "2">> -> "ternary_expr"
      [] OTHER -> "variable_substitution"

(* The node of the condition of the command: the first child of the node   *)
(* of expr, if and while, and of the elseif clause of ElseifCmd.           *)
Condition(n) == IF Len(n.k) >= 3 /\ n.k[3].t = "elseif" THEN n.k[3].k[1] ELSE n.k[1]

Unwrapped(n) == IF n.t = "expr" THEN n.k[1] ELSE n

(* C5: in a terminated expr, if, elseif or while command, an expression    *)
(* without outer braces is exactly one non-braced atom: given an atom it   *)
(* is an expr node with that atom as its only child, and given a unary,    *)
(* binary or ternary operator form the command is rejected; the same       *)
(* operator form inside braces is accepted and yields the operator node.   *)
C5_UnbracedIsOneAtom ==
    Parsed /\ Terminated =>
      /\ inp.cmd \in UnbracedAtomCmds =>
            /\ CommandAccepted
            /\ Condition(CmdNode).t = "expr"
            /\ Len(Condition(CmdNode).k) = 1
            /\ Condition(CmdNode).k[1].t \in AtomTypes
      /\ inp.cmd \in UnbracedOperatorCmds => status = "error" /\ Len(items) = Len(inp.fill)
      /\ \A c \in OperatorForms :
            inp.cmd \in CondCmds(Braced(c)) =>
              /\ CommandAccepted
              /\ Unwrapped(Condition(CmdNode)).t = OperatorType(c)

C5_Witness ==
    /\ Parsed
    /\ inp.cmd = ExprCmd(<<"$", "x">>)
    /\ CommandAccepted
    /\ CmdNode = N("expr_cmd", "",
                    <<N("expr", "", <<N("variable_substitution", "", <<N("id", "x", <<>>)>>)>>)>>)

SubstitutedTypes == {"variable_substitution", "command_substitution", "quoted_word",
                    "braced_word", "braced_word_simple"}

(* C6: a braced operand inside an expression is a raw leaf: whatever the   *)
(* braces of expr {1 + {...}} hold, the command is accepted, the right     *)
(* operand is the node of the braced operand and no descendant of it is a  *)
(* variable substitution, a command substitution, a quoted word or a       *)
(* braced node.                                                            *)
C6_BracedOperandIsRaw ==
    Parsed /\ Terminated /\ inp.cmd \in RawExprCmds =>
      /\ CommandAccepted
      /\ CmdNode.k[1].k[1].k[2].t = "braced_word_simple"
      /\ \A m \in Nodes(CmdNode.k[1].k[1].k[2]) \ {CmdNode.k[1].k[1].k[2]} :
            m.t \notin SubstitutedTypes

WellFormedCmds == OtherCmds

(* C8: a script of n >= 1 well-formed commands with a terminator between   *)
(* each two is accepted and its tree has exactly n command nodes, in the   *)
(* order of the source, whether or not a terminator follows the last one.  *)
C8_LastTerminatorOptional ==
    Parsed /\ inp.cmd \in WellFormedCmds =>
      /\ CommandAccepted
      /\ \A j \in 1..Len(inp.fill) :
            items[j] = N("command", "",
                         <<N("simple_word", "puts", <<>>),
                           N("word_list", "", <<N("simple_word", "a", <<>>)>>)>>)

CommentTypes == {"comment", "end_of_line_comment"}

Done == status \in {"accept", "error"} /\ rest = <<>>

(* Both parses of an input with trivia are finished: prev holds the tree   *)
(* of the script with the trivia, Tree is the tree of the script without.  *)
Compared == Done /\ inp.trivia # "none" /\ Len(prev) = 1

WithoutComments(its) == SelectSeq(its, LAMBDA n : n.t \notin CommentTypes)

AfterForms ==
    {<<"after", " ", "100">>, <<"after", " ", "100", " ", "{", "puts", " ", "a", "}">>,
     <<"after", " ", "cancel", " ", "someId">>, <<"after", " ", "idle", " ", "foo">>,
     <<"after", " ", "info">>, <<"after", " ", "info", " ", "someId">>}

(* C10: the after builtin accepts exactly its four forms, selected by the  *)
(* word after the keyword: a number, cancel, idle or info; a terminated    *)
(* after cancel someId is an after node holding the id, and a word that    *)
(* selects none of the four forms is not accepted.                         *)
C10_AfterFourForms ==
    Parsed /\ Terminated /\ inp.cmd \in AfterCmds =>
      /\ inp.cmd \in AfterForms => CommandAccepted /\ CmdNode.t = "after"
      /\ inp.cmd = <<"after", " ", "cancel", " ", "someId">> =>
            CmdNode = N("after", "", <<N("simple_word", "someId", <<>>)>>)
      /\ inp.cmd \notin AfterForms => status = "error"
====
